---- MODULE Spec2Model ----
(***************************************************************************)
(* get_zappi_history.py: main() walks the zappi list and, per device,      *)
(* either folds one day's totals into a JSON object, renders a month       *)
(* rollup (one load_day per day of the month) or renders a single day.     *)
(* load_day() turns the raw records of a day into table rows and feeds     *)
(* eight PowerMeter accumulators.                                          *)
(*                                                                         *)
(* Numbers: Python floats are modelled as exact rationals <<num, den>>     *)
(* (den > 0, lowest terms).  The voltages used (v1 = 2400) make v1 / 10    *)
(* exact in binary floating point, so int() of the float and of the        *)
(* rational agree.                                                         *)
(* Cells of a table row are triples <<tag, a, b>>:                         *)
(*   <<"None", 0, 0>>  None          <<"int", n, 1>>     the int n         *)
(*   <<"hh:mm", h, m>> '{:02}:{:02}' <<"Totals", 0, 0>>  'Totals'          *)
(*   <<"kWh", n, d>>   str(PowerMeter) of the total n/d                    *)
(***************************************************************************)
EXTENDS Integers, Sequences, FiniteSets, TLC

\* ------------------------------------------------------------------ bounds
MaxRecs == 3        \* records the sample source yields during one run, at most
MaxDay == 2         \* largest day of month (today's, or the --day value)
MaxZappi == 2       \* devices in the zappi list

\* --------------------------------------------------------- program constants
SecondsPerMinute == 60
MinutesPerHour == 60
PerMinuteFactor == 4
VoltsDivisor == 10
HourlySeed == 3600
MinuteSeed == 60

\* ------------------------------------------------------------- rationals
Abs(n) == IF n < 0 THEN -n ELSE n

RECURSIVE GCD(_, _)
GCD(a, b) == IF b = 0 THEN a ELSE GCD(b, a % b)

Rat(n, d) ==
    LET g == GCD(Abs(n), Abs(d))
        s == IF d < 0 THEN -1 ELSE 1
    IN  <<(s * n) \div g, (s * d) \div g>>

RatAdd(p, q) == Rat(p[1] * q[2] + q[1] * p[2], p[2] * q[2])

RatMul(p, q) == Rat(p[1] * q[1], p[2] * q[2])

RatDiv(p, q) == Rat(p[1] * q[2], p[2] * q[1])

Zero == Rat(0, 1)

\* int(x): truncation toward zero
IntOf(q) == IF q[1] >= 0 THEN q[1] \div q[2] ELSE -((-q[1]) \div q[2])

\* ------------------------------------------------------------------ cells
NoneCell == <<"None", 0, 0>>

IntCell(n) == <<"int", n, 1>>

TimeLabel(hour, minute) == <<"hh:mm", hour, minute>>

TotalsLabel == <<"Totals", 0, 0>>

\* Python truthiness of a cell: None is falsy, a str is falsy only when
\* empty (none of the strings built here is), an int is falsy when 0.
Truthy(cell) ==
    CASE cell[1] = "None" -> FALSE
      [] cell[1] = "int" -> cell[2] # 0
      [] OTHER -> TRUE

\* ----------------------------------------------------------- module data
FIELD_NAMES ==
    [k \in {"gep", "gen", "h1d", "h2d", "h3d", "h1b", "imp", "exp"} |->
        CASE k = "gep" -> "Generated"
          [] k = "gen" -> "Generated Negative"
          [] k = "h1d" -> "Phase 1 diverted"
          [] k = "h2d" -> "Phase 2 diverted"
          [] k = "h3d" -> "Phase 3 diverted"
          [] k = "h1b" -> "Zappi imported"
          [] k = "imp" -> "Imported"
          [] k = "exp" -> "Exported"]

headers == <<"imp", "exp", "gen", "gep", "h1d", "h2d", "h3d", "h1b">>

CalendarKeys == <<"dow", "yr", "mon", "dom">>

\* load_day's table_headers
TableHeaders ==
    <<"Time", "Duration">> \o
    [i \in 1..Len(headers) |->
        IF headers[i] \in DOMAIN FIELD_NAMES THEN FIELD_NAMES[headers[i]]
        ELSE headers[i]]

\* ------------------------------------------------------------ PowerMeter
\* mec.power_meter.PowerMeter: (elapsed-weighted sum, last timestamp)
PowerMeter == [sum |-> Zero, started |-> FALSE, last |-> 0]

add_value(pm, power, timestamp) ==
    IF ~pm.started
    THEN [sum |-> pm.sum, started |-> TRUE, last |-> timestamp]
    ELSE [sum |-> RatAdd(pm.sum, RatMul(power, Rat(timestamp - pm.last, 1))),
          started |-> TRUE,
          last |-> timestamp]

PowerMeterStr(pm) == <<"kWh", pm.sum[1], pm.sum[2]>>

\* --------------------------------------------------------------- records
\* A raw record is a function from the field names it carries to numbers.
Del(rec, keys) == [k \in (DOMAIN rec) \ keys |-> rec[k]]

EmptyRec == [k \in {} |-> 0]

TimeParts ==
    { EmptyRec,
      ("min" :> 1),
      ("hr" :> 1) @@ ("min" :> 0) }

Calendar == ("dow" :> 3) @@ ("yr" :> 2020) @@ ("mon" :> 5) @@ ("dom" :> 1)

BodyParts ==
    { ("imp" :> 3600) @@ ("nect1" :> 3600) @@ ("exp" :> 1800) @@ ("pect1" :> 1800)
          @@ ("gen" :> 0) @@ ("gep" :> 40) @@ ("v1" :> 2400) @@ ("frq" :> 5000),
      ("nect1" :> 3600) @@ ("exp" :> 60) @@ ("pect1" :> 900) @@ ("h1d" :> 7200)
          @@ ("h1b" :> -1800) @@ ("zzz" :> 7) }

\* records with all four calendar fields, and records without 'dow'
RawRecords ==
    { t @@ Calendar @@ b : t \in TimeParts, b \in BodyParts }
    \cup { t @@ Del(Calendar, {"dow"}) @@ ("imp" :> 3600) : t \in TimeParts }

\* ------------------------------------------------- load_day, one record
\* a variant that drops the secondary readings without comparing them
DropDuplicatesUnconditional(rec) == Del(rec, {"nect1", "pect1"})

\* lines 202-205: a secondary reading equal to its canonical channel goes
DropDuplicates(rec) ==
    LET r1 == IF "imp" \in DOMAIN rec /\ "nect1" \in DOMAIN rec
                 /\ rec["imp"] = rec["nect1"]
              THEN Del(rec, {"nect1"}) ELSE rec
    IN  IF "exp" \in DOMAIN r1 /\ "pect1" \in DOMAIN r1
           /\ r1["exp"] = r1["pect1"]
        THEN Del(r1, {"pect1"}) ELSE r1

HourOf(rec) == IF "hr" \in DOMAIN rec THEN rec["hr"] ELSE 0

MinuteOf(rec) == IF "min" \in DOMAIN rec THEN rec["min"] ELSE 0

SampleTime(rec) ==
    ((HourOf(rec) * MinutesPerHour) + MinuteOf(rec)) * SecondsPerMinute

\* lines 215-216: del rec[key] raises KeyError for a key that is not there
CalendarKeyError(rec) == \E i \in 1..Len(CalendarKeys) : CalendarKeys[i] \notin DOMAIN rec

VoltsOf(rec) ==
    IF "v1" \in DOMAIN rec THEN Rat(rec["v1"], VoltsDivisor) ELSE Rat(1, 1)

\* a variant that divides the hourly value with // (floor) instead of /
ChannelWattsFloorDiv(rec, key, isHourly) ==
    IF key \in DOMAIN rec
    THEN IF isHourly
         THEN Rat(rec[key] \div (MinutesPerHour * SecondsPerMinute), 1)
         ELSE RatMul(RatDiv(Rat(rec[key], 1), VoltsOf(rec)), Rat(PerMinuteFactor, 1))
    ELSE Zero

\* lines 229-233 and 237: the watts handed to the accumulator
ChannelWatts(rec, key, isHourly) ==
    IF key \in DOMAIN rec
    THEN IF isHourly
         THEN Rat(rec[key], MinutesPerHour * SecondsPerMinute)
         ELSE RatMul(RatDiv(Rat(rec[key], 1), VoltsOf(rec)), Rat(PerMinuteFactor, 1))
    ELSE Zero

\* a variant that writes `int(watts) or None`: a zero reading shows as None
ChannelCellFalsyNone(rec, key, isHourly) ==
    IF key \in DOMAIN rec /\ IntOf(ChannelWatts(rec, key, isHourly)) # 0
    THEN IntCell(IntOf(ChannelWatts(rec, key, isHourly)))
    ELSE NoneCell

\* lines 234 and 238: the cell of the row
ChannelCell(rec, key, isHourly) ==
    IF key \in DOMAIN rec
    THEN IntCell(IntOf(ChannelWatts(rec, key, isHourly)))
    ELSE NoneCell

\* what is left of the record when line 242 looks at it
Leftover(rec) ==
    Del(DropDuplicates(rec),
        {"hr", "min", "v1", "frq"}
        \cup {CalendarKeys[i] : i \in 1..Len(CalendarKeys)}
        \cup {headers[i] : i \in 1..Len(headers)})

\* a variant that seeds one hour back whatever the granularity
SeedTimeHourlyOnly(isHourly) == -HourlySeed

\* lines 179-184
SeedTime(isHourly) == IF isHourly THEN -HourlySeed ELSE -MinuteSeed


\* lines 148-152 of main: fold the totals row into the device's JSON object.
\* Every iteration pops exactly one cell, so totals[0] is the cell under head.
RECURSIVE JsonFold(_, _, _)
JsonFold(header, totalsRow, raw) ==
    IF header = <<>> THEN raw
    ELSE IF ~Truthy(Head(totalsRow)) \/ Head(header) = "Time"
         THEN JsonFold(Tail(header), Tail(totalsRow), raw)
         ELSE JsonFold(Tail(header), Tail(totalsRow),
                       (Head(header) :> Head(totalsRow)) @@ raw)

\* range(1, day.tm_mday + 1): its last value, for an integer tm_mday
LastDom(mday) == (mday[2] + 1) - 1

\* truthiness of main's local `totals`: a bool, or (once line 141 or 160 has
\* rebound it) the totals row, a list
PyTruthy(t) == IF t.list THEN t.row # <<>> ELSE t.b

BoolTotals(b) == [list |-> FALSE, b |-> b, row |-> <<>>]

ListTotals(row) == [list |-> TRUE, b |-> FALSE, row |-> row]

\* ------------------------------------------------------------------ state
VARIABLES
    pc,                 \* where main is: for_zappi, for_dom, for_rec (inside
                        \* load_day), returned, done, KeyError, TypeError
    hourly, totals, use_json, show_month,   \* main's locals (lines 104-126)
    tm_mday,            \* day.tm_mday: <<"int", n>> or, from --day, <<"str", n>>
    nzappi, zi,         \* the zappi list and the device being processed
    show_headers,       \* the module global (line 83)
    dom, lastDom, all_data,                 \* the show-month loop
    jout,
    args,               \* load_day's arguments
    prev_sample_time, data, pm_totals,      \* load_day's locals
    ret,                \* what load_day returned
    \* history, not program state
    optTotals,          \* whether --totals was given
    upToDay,            \* day.tm_mday as main found it after the options
    yielded,            \* how many records the source has yielded in this run
    recs,               \* the records the source has yielded to this load_day
    pm_calls,           \* the add_value calls each accumulator has received
    diag,               \* the leftover records load_day printed: <<index, rec>>
    tables,             \* per device, the tables printed: [by, hdr, rows]
    resets,             \* per device, how often show_headers was set to True
    callArgs,           \* the load_day calls made for the current device
    retRows             \* the totals rows those calls have returned

mainVars == <<hourly, totals, use_json, show_month, tm_mday, nzappi, zi,
              dom, lastDom, all_data, jout, optTotals, upToDay>>

frameVars == <<args, prev_sample_time, data, pm_totals, recs, pm_calls, diag>>

vars == <<pc, mainVars, show_headers, frameVars, ret, tables, resets, callArgs,
          retRows, yielded>>

HeaderSet == {headers[i] : i \in 1..Len(headers)}

NoArgs == [hourly |-> FALSE, totals |-> FALSE, use_json |-> FALSE, day |-> <<"int", 0>>]

NoRet == [headers |-> <<>>, data |-> <<>>, row |-> <<>>]

NoMeters == [k \in HeaderSet |-> PowerMeter]

NoCalls == [k \in HeaderSet |-> <<>>]

Init ==
    /\ pc = "for_zappi"
    /\ use_json \in BOOLEAN
    /\ show_month \in BOOLEAN
    /\ hourly \in BOOLEAN
    /\ optTotals \in BOOLEAN
    /\ totals = BoolTotals(optTotals)
    /\ tm_mday \in {<<k, d>> : k \in {"int", "str"}, d \in 1..MaxDay}
    \* options main never reads in the mode chosen are left at one value
    /\ use_json => (hourly /\ ~optTotals /\ ~show_month)
    /\ (use_json \/ ~show_month) => tm_mday = <<"int", MaxDay>>
    /\ upToDay = tm_mday
    /\ nzappi = MaxZappi
    /\ zi = 0
    /\ show_headers = TRUE
    /\ dom = 0 /\ lastDom = 0 /\ all_data = <<>>
    /\ jout = EmptyRec
    /\ args = NoArgs
    /\ prev_sample_time = 0 /\ data = <<>> /\ pm_totals = NoMeters
    /\ ret = NoRet
    /\ recs = <<>> /\ pm_calls = NoCalls /\ diag = <<>>
    /\ tables = [z \in 1..MaxZappi |-> <<>>]
    /\ resets = [z \in 1..MaxZappi |-> 0]
    /\ callArgs = <<>>
    /\ retRows = <<>>
    /\ yielded = 0

\* load_day, lines 175-196: entry, the seed and the fresh accumulators
LoadDayStart(prior, isHourly, totalsArg, json, day) ==
    /\ args' = [hourly |-> isHourly, totals |-> totalsArg, use_json |-> json, day |-> day]
    /\ callArgs' = Append(prior, args')
    /\ prev_sample_time' = SeedTime(isHourly)
    /\ data' = <<>>
    /\ pm_totals' = [k \in HeaderSet |-> add_value(PowerMeter, Zero, SeedTime(isHourly))]
    /\ pm_calls' = [k \in HeaderSet |-> << <<Zero, SeedTime(isHourly)>> >>]
    /\ recs' = <<>>
    /\ diag' = <<>>
    /\ pc' = "for_rec"

\* a variant that leaves show_headers as the previous device left it
EnterDeviceNoReset ==
    /\ pc = "for_zappi"
    /\ zi < nzappi
    /\ zi' = zi + 1
    /\ show_headers' = show_headers
    /\ resets' = resets
    /\ retRows' = <<>>

\* main, lines 136-138: the next device
EnterDevice ==
    /\ pc = "for_zappi"
    /\ zi < nzappi
    /\ zi' = zi + 1
    /\ show_headers' = TRUE
    /\ resets' = [resets EXCEPT ![zi + 1] = @ + 1]
    /\ retRows' = <<>>

\* lines 140-146: JSON mode calls load_day(…, True, True, True)
ZappiJson ==
    /\ EnterDevice
    /\ use_json
    /\ LoadDayStart(<<>>, TRUE, TRUE, TRUE, tm_mday)
    /\ UNCHANGED <<yielded, hourly, totals, use_json, show_month, tm_mday, nzappi,
                   dom, lastDom, all_data, jout, optTotals, upToDay, ret, tables>>

\* lines 155-157: the month rollup evaluates range(1, day.tm_mday + 1) once
ZappiMonth ==
    /\ EnterDevice
    /\ ~use_json /\ show_month
    /\ tm_mday[1] = "int"
    /\ all_data' = <<>>
    /\ dom' = 0
    /\ lastDom' = LastDom(tm_mday)
    /\ callArgs' = <<>>
    /\ pc' = "for_dom"
    /\ UNCHANGED <<yielded, hourly, totals, use_json, show_month, tm_mday, nzappi,
                   jout, optTotals, upToDay, frameVars, ret, tables>>

\* line 157 when --day was given: tm_mday is a str and str + 1 raises TypeError
ZappiMonthTypeError ==
    /\ EnterDevice
    /\ ~use_json /\ show_month
    /\ tm_mday[1] = "str"
    /\ all_data' = <<>>
    /\ callArgs' = <<>>
    /\ pc' = "TypeError"
    /\ UNCHANGED <<yielded, hourly, totals, use_json, show_month, tm_mday, nzappi,
                   dom, lastDom, jout, optTotals, upToDay, frameVars, ret, tables>>

\* lines 168-169: a single day
ZappiDay ==
    /\ EnterDevice
    /\ ~use_json /\ ~show_month
    /\ LoadDayStart(<<>>, hourly, PyTruthy(totals), use_json, tm_mday)
    /\ UNCHANGED <<yielded, hourly, totals, use_json, show_month, tm_mday, nzappi,
                   dom, lastDom, all_data, jout, optTotals, upToDay, ret, tables>>

\* lines 157-165: the next day of the month
NextDom ==
    /\ pc = "for_dom"
    /\ dom < lastDom
    /\ dom' = dom + 1
    /\ tm_mday' = <<"int", dom + 1>>
    /\ LoadDayStart(callArgs, hourly, PyTruthy(totals), use_json, tm_mday')
    /\ UNCHANGED <<retRows, yielded, hourly, totals, use_json, show_month, nzappi, zi, lastDom,
                   all_data, jout, optTotals, upToDay, show_headers, ret,
                   tables, resets>>

\* line 167: the rollup table, printed with headers=headers
PrintRollup ==
    /\ pc = "for_dom"
    /\ dom >= lastDom
    /\ tables' = [tables EXCEPT ![zi] =
                    Append(@, [by |-> "rollup", hdr |-> TRUE, rows |-> Len(all_data)])]
    /\ pc' = "for_zappi"
    /\ UNCHANGED <<retRows, yielded, mainVars, show_headers, frameVars, ret, resets, callArgs>>

\* lines 197-244: one record of the day
\* The source yields the records of a day in ascending slot order.
NextRec ==
    /\ pc = "for_rec"
    /\ yielded < MaxRecs
    /\ yielded' = yielded + 1
    /\ \E rec \in RawRecords :
        /\ SampleTime(rec) > prev_sample_time
        /\ recs' = Append(recs, rec)
        /\ IF CalendarKeyError(rec)
           THEN /\ pc' = "KeyError"
                /\ UNCHANGED <<prev_sample_time, data, pm_totals, pm_calls, diag>>
           ELSE LET r == DropDuplicates(rec)
                    sample_time == SampleTime(r)
                    row == <<TimeLabel(HourOf(r), MinuteOf(r)),
                             IntCell(sample_time - prev_sample_time)>>
                           \o [i \in 1..Len(headers) |->
                                  ChannelCell(r, headers[i], args.hourly)]
                    left == Leftover(rec)
                IN  /\ pm_totals' = [k \in HeaderSet |->
                          add_value(pm_totals[k], ChannelWatts(r, k, args.hourly), sample_time)]
                    /\ pm_calls' = [k \in HeaderSet |->
                          Append(pm_calls[k], <<ChannelWatts(r, k, args.hourly), sample_time>>)]
                    /\ prev_sample_time' = sample_time
                    /\ diag' = IF left # EmptyRec
                               THEN Append(diag, <<Len(recs) + 1, left>>)
                               ELSE diag
                    /\ data' = Append(data, row)
                    /\ pc' = "for_rec"
    /\ UNCHANGED <<retRows, mainVars, show_headers, args, ret, tables, resets, callArgs>>

\* lines 250-252: the totals row
TotalsRow(meters) ==
    <<TotalsLabel, NoneCell>>
    \o [i \in 1..Len(headers) |-> PowerMeterStr(meters[headers[i]])]

\* a variant that clears the table after the totals row was appended
ReturnedDataClearedLate(totalsArg, rows, row) ==
    IF totalsArg THEN <<>> ELSE Append(rows, row)

\* lines 248-253: with totals set the sample rows are dropped, then the
\* totals row is appended
ReturnedData(totalsArg, rows, row) ==
    Append(IF totalsArg THEN <<>> ELSE rows, row)

\* lines 245-261: the source is exhausted; the totals row, the table, return
LoadDayReturn ==
    /\ pc = "for_rec"
    /\ LET row == TotalsRow(pm_totals)
           out == ReturnedData(args.totals, data, row)
       IN  /\ ret' = [headers |-> TableHeaders, data |-> out, row |-> row]
           /\ retRows' = Append(retRows, row)
           /\ IF ~args.use_json
              THEN /\ tables' = [tables EXCEPT ![zi] =
                         Append(@, [by |-> "load_day", hdr |-> show_headers,
                                    rows |-> Len(out)])]
                   /\ show_headers' = FALSE
              ELSE UNCHANGED <<tables, show_headers>>
    /\ pc' = "returned"
    /\ UNCHANGED <<yielded, mainVars, frameVars, resets, callArgs>>

\* load_day's frame is gone once the caller has taken the result
DropFrame ==
    /\ args' = NoArgs
    /\ prev_sample_time' = 0
    /\ data' = <<>>
    /\ pm_totals' = NoMeters
    /\ recs' = <<>>
    /\ pm_calls' = NoCalls
    /\ diag' = <<>>
    /\ ret' = NoRet

\* lines 141, 147-153: (header, _, totals) = load_day(...), then the fold
AfterJson ==
    /\ pc = "returned"
    /\ use_json
    /\ jout' = (zi :> JsonFold(ret.headers, ret.row, EmptyRec)) @@ jout
    /\ totals' = ListTotals(<<>>)
    /\ DropFrame
    /\ pc' = "for_zappi"
    /\ UNCHANGED <<retRows, yielded, hourly, use_json, show_month, tm_mday, nzappi, zi, dom, lastDom,
                   all_data, optTotals, upToDay, show_headers, tables, resets, callArgs>>

\* lines 160 and 166: (headers, _, totals) = load_day(...); all_data.append(totals)
AfterMonthDay ==
    /\ pc = "returned"
    /\ ~use_json /\ show_month
    /\ totals' = ListTotals(ret.row)
    /\ all_data' = Append(all_data, ret.row)
    /\ DropFrame
    /\ pc' = "for_dom"
    /\ UNCHANGED <<retRows, yielded, hourly, use_json, show_month, tm_mday, nzappi, zi, dom, lastDom,
                   jout, optTotals, upToDay, show_headers, tables, resets, callArgs>>

\* line 169: the result of a single day is not used
AfterDay ==
    /\ pc = "returned"
    /\ ~use_json /\ ~show_month
    /\ DropFrame
    /\ pc' = "for_zappi"
    /\ UNCHANGED <<retRows, yielded, mainVars, show_headers, tables, resets, callArgs>>

\* lines 171-172: the device loop is over
Finish ==
    /\ pc = "for_zappi"
    /\ zi = nzappi
    /\ pc' = "done"
    /\ UNCHANGED <<retRows, yielded, mainVars, show_headers, frameVars, ret, tables, resets, callArgs>>

Next ==
    \/ ZappiJson
    \/ ZappiMonth
    \/ ZappiMonthTypeError
    \/ ZappiDay
    \/ NextDom
    \/ PrintRollup
    \/ NextRec
    \/ LoadDayReturn
    \/ AfterJson
    \/ AfterMonthDay
    \/ AfterDay
    \/ Finish

Spec == Init /\ [][Next]_vars

\* ------------------------------------------------------------- properties
\* load_day is inside its record loop or has just returned: recs are then
\* exactly the records it has turned into rows
InLoadDay == pc \in {"for_rec", "returned"}

\* the slot timestamp of a raw record: (hour*60+minute)*60, 0 for a missing field
SlotOf(r) ==
    ((IF "hr" \in DOMAIN r THEN r["hr"] ELSE 0) * 60
     + (IF "min" \in DOMAIN r THEN r["min"] ELSE 0)) * 60

\* the seed: one slot before midnight
SeedOf(isHourly) == IF isHourly THEN -3600 ELSE -60

\* average watts of a channel in a raw record: value/3600 hourly,
\* value/(v1/10)*4 per minute (volts 1 without v1), 0 for an absent channel
WattsOf(r, key, isHourly) ==
    IF key \notin DOMAIN r THEN <<0, 1>>
    ELSE IF isHourly THEN Rat(r[key], 3600)
    ELSE IF "v1" \in DOMAIN r THEN Rat(r[key] * 4 * 10, r["v1"])
    ELSE Rat(r[key] * 4, 1)

\* add_value(0, t_0), add_value(watts_1, t_1), ..., add_value(watts_n, t_n)
CallsFor(rs, key, isHourly) ==
    << <<Zero, SeedOf(isHourly)>> >>
    \o [i \in 1..Len(rs) |-> <<WattsOf(rs[i], key, isHourly), SlotOf(rs[i])>>]

\* sum over i >= 2 of k * watts_i * (t_i - t_{i-1})
RECURSIVE WeightedSum(_, _)
WeightedSum(calls, k) ==
    IF Len(calls) < 2 THEN Zero
    ELSE LET n == Len(calls)
         IN  RatAdd(WeightedSum(SubSeq(calls, 1, n - 1), k),
                    RatMul(RatMul(Rat(k, 1), calls[n][1]),
                           Rat(calls[n][2] - calls[n - 1][2], 1)))

\* the accumulator after a sequence of add_value calls, each power scaled by k
RECURSIVE Fed(_, _)
Fed(calls, k) ==
    IF calls = <<>> THEN PowerMeter
    ELSE LET n == Len(calls)
         IN  add_value(Fed(SubSeq(calls, 1, n - 1), k),
                       RatMul(Rat(k, 1), calls[n][1]), calls[n][2])

\* C1: when load_day returns, having been fed the records r_1..r_n (every
\* state of the record loop can return, so every prefix is covered), each of
\* the 8 channel accumulators has received exactly add_value(0, t_0), add_value(watts_1, t_1),
\* ..., add_value(watts_n, t_n) in that order (t_0 the seed), its total is the
\* sum of watts_i * (t_i - t_{i-1}), and scaling every watts_i by k scales the
\* total by k.
C1_AccumulatorCalls ==
    pc = "returned" =>
        \A key \in HeaderSet :
            LET calls == CallsFor(recs, key, args.hourly)
            IN  /\ pm_calls[key] = calls
                /\ pm_totals[key].sum = WeightedSum(calls, 1)
                /\ \A k \in {-3, 2} :
                      Fed(calls, k).sum = RatMul(Rat(k, 1), pm_totals[key].sum)

\* C1 witness: load_day has returned after two records, hourly, with a
\* fractional watts value (exp = 1800 is half a watt) and a non-zero total
C1_Witness ==
    /\ pc = "returned"
    /\ args.hourly
    /\ Len(recs) = 2
    /\ pm_calls["exp"][2][1] = <<1, 2>>
    /\ pm_totals["exp"].sum # Zero
    /\ pm_totals["imp"].sum # Zero

\* C8: for every record turned into a row and every one of the 8 channels: the
\* cell is None exactly when the channel key is absent from the raw record, is
\* an int when the key is present (also for a value of 0 or one that truncates
\* to 0), an absent channel feeds watts = 0, and every accumulator is advanced
\* to the slot timestamp exactly once per record.
C8_NullIffAbsent ==
    InLoadDay =>
        /\ Len(data) = Len(recs)
        /\ \A c \in 1..Len(headers) :
              LET key == headers[c]
              IN  /\ Len(pm_calls[key]) = Len(recs) + 1
                  /\ \A i \in 1..Len(recs) :
                        /\ (data[i][c + 2] = <<"None", 0, 0>>) <=> (key \notin DOMAIN recs[i])
                        /\ key \in DOMAIN recs[i] => data[i][c + 2][1] = "int"
                        /\ key \notin DOMAIN recs[i] => pm_calls[key][i + 1][1] = <<0, 1>>
                        /\ pm_calls[key][i + 1][2] = SlotOf(recs[i])
                  /\ recs # <<>> => pm_totals[key].last = SlotOf(recs[Len(recs)])

\* C8 witness: a row with an absent channel (None), a channel present with the
\* value 0 and a channel present whose watts truncate to 0, both shown as int 0
C8_Witness ==
    /\ InLoadDay
    /\ \E i \in 1..Len(data) :
          /\ "h1d" \notin DOMAIN recs[i] /\ data[i][7] = <<"None", 0, 0>>
          /\ "gen" \in DOMAIN recs[i] /\ recs[i]["gen"] = 0 /\ data[i][5] = <<"int", 0, 1>>
          /\ "gep" \in DOMAIN recs[i] /\ recs[i]["gep"] = 40 /\ data[i][6] = <<"int", 0, 1>>

\* sum of the Duration cells of rows 1..n
RECURSIVE DurationSum(_)
DurationSum(rows) ==
    IF rows = <<>> THEN 0
    ELSE rows[Len(rows)][2][2] + DurationSum(SubSeq(rows, 1, Len(rows) - 1))

Ascending(rs) == \A i \in 1..(Len(rs) - 1) : SlotOf(rs[i]) < SlotOf(rs[i + 1])

\* C9: each row's Duration is its slot timestamp minus the previous record's
\* (the seed, -3600 hourly or -60 per minute, for the first): a first record at
\* 00:00 gets one full slot, and for ascending input with distinct slots every
\* Duration is positive and the Durations of rows 1..n sum to t_n minus the seed.
C9_Durations ==
    (InLoadDay /\ Ascending(recs)) =>
        /\ \A i \in 1..Len(data) :
              /\ data[i][2] = <<"int",
                                SlotOf(recs[i])
                                - (IF i = 1 THEN SeedOf(args.hourly) ELSE SlotOf(recs[i - 1])),
                                1>>
              /\ data[i][2][2] > 0
        /\ (data # <<>> /\ SlotOf(recs[1]) = 0) =>
              data[1][2][2] = (IF args.hourly THEN 3600 ELSE 60)
        /\ data # <<>> =>
              DurationSum(data) = SlotOf(recs[Len(recs)]) - SeedOf(args.hourly)

\* C9 witness: a per-minute day whose first record is at 00:00 (no hr, no min
\* field) and which has a later record
C9_Witness ==
    /\ pc = "returned"
    /\ ~args.hourly
    /\ Len(data) >= 2
    /\ DOMAIN recs[1] \cap {"hr", "min"} = {}
    /\ data[1][2] = <<"int", 60, 1>>

\* the leftover record printed for record i, if any
DiagOf(i) == {d \in {diag[j] : j \in 1..Len(diag)} : d[1] = i}

\* C7: in every record turned into a row, nect1 equal to a present imp is
\* dropped (never printed as a leftover) and the imp value itself goes to the
\* Imported column and accumulator; likewise pect1 equal to exp.  A secondary
\* value that differs from, or lacks, its channel is printed as a leftover.
C7_DuplicateSecondary ==
    InLoadDay =>
        \A i \in 1..Len(data) :
            LET r == recs[i]
                dupImp == {"imp", "nect1"} \subseteq DOMAIN r /\ r["imp"] = r["nect1"]
                dupExp == {"exp", "pect1"} \subseteq DOMAIN r /\ r["exp"] = r["pect1"]
            IN  /\ dupImp =>
                      /\ \A d \in DiagOf(i) : "nect1" \notin DOMAIN d[2]
                      /\ data[i][3] = <<"int", IntOf(WattsOf(r, "imp", args.hourly)), 1>>
                      /\ pm_calls["imp"][i + 1][1] = WattsOf(r, "imp", args.hourly)
                /\ dupExp =>
                      /\ \A d \in DiagOf(i) : "pect1" \notin DOMAIN d[2]
                      /\ data[i][4] = <<"int", IntOf(WattsOf(r, "exp", args.hourly)), 1>>
                      /\ pm_calls["exp"][i + 1][1] = WattsOf(r, "exp", args.hourly)
                /\ ("nect1" \in DOMAIN r /\ ~dupImp) =>
                      \E d \in DiagOf(i) :
                          "nect1" \in DOMAIN d[2] /\ d[2]["nect1"] = r["nect1"]
                /\ ("pect1" \in DOMAIN r /\ ~dupExp) =>
                      \E d \in DiagOf(i) :
                          "pect1" \in DOMAIN d[2] /\ d[2]["pect1"] = r["pect1"]

\* C7 witness: one day with a record whose nect1 and pect1 duplicate imp and
\* exp (nothing printed for it) and a record whose nect1 has no imp beside it
\* and whose pect1 differs from exp (both printed)
C7_Witness ==
    /\ InLoadDay
    /\ \E i, j \in 1..Len(data) :
          /\ {"imp", "nect1", "exp", "pect1"} \subseteq DOMAIN recs[i]
          /\ recs[i]["imp"] = recs[i]["nect1"] /\ recs[i]["exp"] = recs[i]["pect1"]
          /\ DiagOf(i) = {}
          /\ "imp" \notin DOMAIN recs[j] /\ "nect1" \in DOMAIN recs[j]
          /\ recs[j]["exp"] # recs[j]["pect1"]
          /\ \E d \in DiagOf(j) : {"nect1", "pect1"} \subseteq DOMAIN d[2]

\* C2: when load_day returns after zero raw records the table has exactly one
\* row, the Totals row, and every channel total in it is the rendering of a
\* zero total; so for both granularities, with or without totals_only.
C2_EmptyDay ==
    (pc = "returned" /\ recs = <<>>) =>
        /\ Len(ret.data) = 1
        /\ ret.data[1] = ret.row
        /\ ret.row[1] = <<"Totals", 0, 0>>
        /\ Len(ret.row) = 10
        /\ \A c \in 3..10 : ret.row[c] = <<"kWh", 0, 1>>

\* C2 witness: a per-minute load_day without totals_only has returned after
\* zero records
C2_Witness ==
    /\ pc = "returned"
    /\ recs = <<>>
    /\ ~args.hourly
    /\ ~args.totals
    /\ ~args.use_json

\* C3: the JSON object of a device has a key for a channel only if that
\* channel's total is non-zero, and never a "Time" or "Duration" key.
C3_JsonOmitsZero ==
    \A z \in DOMAIN jout :
        \A h \in DOMAIN jout[z] :
            /\ h \notin {"Time", "Duration"}
            /\ jout[z][h][2] # 0

\* the tables load_day printed for device z, in order
RECURSIVE LoadDayTables(_)
LoadDayTables(ts) ==
    IF ts = <<>> THEN <<>>
    ELSE IF Head(ts).by = "load_day" THEN <<Head(ts)>> \o LoadDayTables(Tail(ts))
    ELSE LoadDayTables(Tail(ts))

\* C4 as stated: in table mode the first table of a device carries the header
\* block and every later table of that device, the rollup table included, is
\* printed without headers.
C4_HeadersOncePerDevice ==
    ~use_json =>
        \A z \in 1..MaxZappi :
            \A i \in 1..Len(tables[z]) : tables[z][i].hdr <=> (i = 1)

\* C4 amended: of the tables load_day prints for a device exactly the first
\* carries the header block, the month rollup table is always printed with
\* headers, and show_headers is reset exactly once per device, before the
\* device's first table.
C4_HeadersOncePerLoadDay ==
    ~use_json =>
        \A z \in 1..MaxZappi :
            /\ \A i \in 1..Len(LoadDayTables(tables[z])) :
                  LoadDayTables(tables[z])[i].hdr <=> (i = 1)
            /\ \A i \in 1..Len(tables[z]) :
                  tables[z][i].by = "rollup" => tables[z][i].hdr
            /\ resets[z] = (IF z <= zi THEN 1 ELSE 0)
            /\ tables[z] # <<>> => resets[z] = 1

\* C4 witness: the second device of a month rollup has printed two day tables
\* and its rollup table
C4_Witness ==
    /\ zi = 2
    /\ show_month
    /\ Len(tables[2]) = 3
    /\ tables[2][3].by = "rollup"
    /\ tables[1] # <<>>

\* the rollup table of device z has been printed
RollupPrinted(z) == \E i \in 1..Len(tables[z]) : tables[z][i].by = "rollup"

\* The month rollup when day.tm_mday is the integer main takes from
\* time.localtime(): load_day is called for the days 1, 2, ... in ascending
\* order, once each and never beyond D; the rows collected are the Totals rows
\* those calls returned, in order; and when a device's rollup table is printed
\* all D days have been called and the table has exactly D rows, for the first
\* device and for every later one.
MonthRollupIntDay ==
    (show_month /\ ~use_json /\ upToDay[1] = "int" /\ zi >= 1) =>
        LET D == upToDay[2]
        IN  /\ Len(callArgs) <= D
            /\ \A i \in 1..Len(callArgs) : callArgs[i].day = <<"int", i>>
            /\ Len(all_data) <= Len(retRows)
            /\ \A i \in 1..Len(all_data) : all_data[i] = retRows[i]
            /\ RollupPrinted(zi) =>
                  /\ Len(callArgs) = D
                  /\ Len(all_data) = D
                  /\ Len(retRows) = D
            /\ \A z \in 1..zi :
                  RollupPrinted(z) =>
                      /\ Len(LoadDayTables(tables[z])) = D
                      /\ tables[z][Len(tables[z])] = [by |-> "rollup", hdr |-> TRUE, rows |-> D]
            /\ \A z \in 1..(zi - 1) : RollupPrinted(z)

\* C5: in month-rollup mode with up_to_day = D, whether D is today's day of
\* month or the day given with --day, main does not leave a device before
\* load_day has been called once for each day 1..D in ascending order, and the
\* rollup table printed for the device has exactly D rows, the i-th being the
\* Totals row returned for day i.
C5_MonthRollup ==
    (show_month /\ ~use_json /\ zi >= 1) =>
        LET D == upToDay[2]
        IN  /\ \A i \in 1..Len(callArgs) : callArgs[i].day = <<"int", i>>
            /\ \A i \in 1..Len(all_data) : i <= Len(retRows) /\ all_data[i] = retRows[i]
            /\ (pc = "TypeError" \/ RollupPrinted(zi)) =>
                  /\ Len(callArgs) = D
                  /\ Len(all_data) = D
                  /\ RollupPrinted(zi)

\* C6: load_day never aborts on a record, whatever fields it carries: every
\* record the source yields becomes a row, and what is printed for it is
\* exactly what is left once the expected fields are stripped.
C6_NeverAborts ==
    /\ pc # "KeyError"
    /\ InLoadDay =>
          /\ Len(data) = Len(recs)
          /\ \A i \in 1..Len(recs) :
                LET left == [k \in (DOMAIN recs[i])
                                   \ ({"hr", "min", "v1", "frq", "dow", "yr", "mon", "dom"}
                                      \cup HeaderSet
                                      \cup (IF {"imp", "nect1"} \subseteq DOMAIN recs[i]
                                               /\ recs[i]["imp"] = recs[i]["nect1"]
                                            THEN {"nect1"} ELSE {})
                                      \cup (IF {"exp", "pect1"} \subseteq DOMAIN recs[i]
                                               /\ recs[i]["exp"] = recs[i]["pect1"]
                                            THEN {"pect1"} ELSE {}))
                             |-> recs[i][k]]
                IN  DiagOf(i) = IF left = EmptyRec THEN {} ELSE {<<i, left>>}

\* C10: in table and month-rollup mode every load_day call gets totals_only
\* equal to the --totals selection: without --totals it returns one row per
\* sample plus the Totals row, with --totals only the Totals row.
C10_TotalsFollowsOption ==
    (~use_json /\ InLoadDay) =>
        /\ args.totals = optTotals
        /\ pc = "returned" =>
              Len(ret.data) = (IF optTotals THEN 1 ELSE Len(recs) + 1)

====
